---------------------------- MODULE Spec2Model ----------------------------
(***************************************************************************)
(* State-machine model of conans/tools.py: OS detection (OSInfo), the      *)
(* package-manager adapters (AptTool, YumTool, BrewTool, NullTool), the    *)
(* SystemPackageTool built on them, and the get / unzip helpers.           *)
(*                                                                         *)
(* A shell command string is modelled as the sequence of its blank-        *)
(* separated words, so "%sapt-get install -y %s" % ("sudo ", "a") is       *)
(* <<"sudo", "apt-get", "install", "-y", "a">>, and the "sudo " prefix is  *)
(* the one-word sequence <<"sudo">>.                                       *)
(***************************************************************************)
EXTENDS Integers, Sequences, FiniteSets, TLC

\* ------------------------------------------------------------------ bounds
\* Longest candidate list handed to install.
MaxPkgs == 2

\* The SystemPackageTool instances alive in the process.
Inst == {"t1", "t2"}
\* Package names handed to install.
Names == {"a", "b"}
\* Exit statuses the runner delegate returns (0 is success).
ExitCodes == {0, 1}

\* Python's None, for an absent environment variable or an undetected field.
NoneVal == "<None>"

\* ------------------------------------------------------- OS detection
AptDistros == {"debian", "ubuntu", "knoppix", "linuxmint", "raspbian"}
YumDistros == {"centos", "redhat", "fedora", "pidora", "scientific",
               "xenserver", "amazon", "oracle"}

\* Values of platform.system() and of distro.id() the host may report.
SystemNames == {"Linux", "Windows", "Darwin", "FreeBSD", "SunOS", "AIX", "Java"}
DistroIds == AptDistros \cup YumDistros \cup {"arch"}

\* A host: what platform.system() returns and, on Linux, what distro.id() returns.
Hosts ==
    {[system |-> "Linux", distro |-> d] : d \in DistroIds}
        \cup {[system |-> s, distro |-> NoneVal] : s \in SystemNames \ {"Linux"}}

\* Mutant of OSInfo: FreeBSD is also flagged as linux.
OSInfoFreeBsdIsLinux(host) ==
    [is_linux     |-> host.system \in {"Linux", "FreeBSD"},
     linux_distro |-> IF host.system = "Linux" THEN host.distro ELSE NoneVal,
     is_windows   |-> host.system = "Windows",
     is_macos     |-> host.system = "Darwin",
     is_freebsd   |-> host.system = "FreeBSD",
     is_solaris   |-> host.system = "SunOS"]

\* OSInfo.__init__: the family flags and, on linux only, the distribution id.
OSInfo(host) ==
    [is_linux     |-> host.system = "Linux",
     linux_distro |-> IF host.system = "Linux" THEN host.distro ELSE NoneVal,
     is_windows   |-> host.system = "Windows",
     is_macos     |-> host.system = "Darwin",
     is_freebsd   |-> host.system = "FreeBSD",
     is_solaris   |-> host.system = "SunOS"]

with_apt(info) == info.is_linux /\ info.linux_distro \in AptDistros

with_yum(info) == info.is_linux /\ info.linux_distro \in YumDistros

\* Mutant of _create_tool: the macOS branch is missing.
_create_tool_no_brew(info) ==
    IF with_apt(info) THEN "AptTool"
    ELSE IF with_yum(info) THEN "YumTool"
    ELSE "NullTool"

\* SystemPackageTool._create_tool
_create_tool(info) ==
    IF with_apt(info) THEN "AptTool"
    ELSE IF with_yum(info) THEN "YumTool"
    ELSE IF info.is_macos THEN "BrewTool"
    ELSE "NullTool"

\* ------------------------------------------------------- construction
\* Values of os.environ.get("CONAN_SYSREQUIRES_SUDO", None).
EnvValues == {NoneVal, "False", "0", "True"}

\* Mutant of SudoEnabled: only "False" disables the prefix.
SudoEnabledOnlyFalse(env_sudo) == env_sudo # "False"

\* SystemPackageTool.__init__: self._sudo
SudoEnabled(env_sudo) == env_sudo # "False" /\ env_sudo # "0"

\* SystemPackageTool.__init__: self._tool._sudo_str
SudoStr(env_sudo) == IF SudoEnabled(env_sudo) THEN <<"sudo">> ELSE <<>>

\* ------------------------------------------------------- errors
\* Both errors are ConanException in the source; they differ by message:
\* "Command '%s' failed" % command   and   "Could not install any of %s" % packages.
NoExc == [type |-> "none", cmd |-> <<>>, pkgs |-> <<>>]

CommandFailed(command) == [type |-> "CommandFailed", cmd |-> command, pkgs |-> <<>>]

NoPackageAvailable(packages) ==
    [type |-> "NoPackageAvailable", cmd |-> <<>>, pkgs |-> packages]

\* Mutant of _run: the exit status is ignored.
_run_ignores_status(command, code) == NoExc

\* _run(runner, command): the exception it raises for the runner's exit status.
_run(command, code) == IF code # 0 THEN CommandFailed(command) ELSE NoExc

\* ------------------------------------------------------- adapters
\* One adapter call: the command it shelled (if any), the runner's exit
\* status, the exception it raised and the value it returned.
Shelled(op, pkg, command, code, exc, ret) ==
    [op |-> op, pkg |-> pkg, shelled |-> TRUE, cmd |-> command, code |-> code,
     exc |-> exc, ret |-> ret]

NotShelled(op, pkg, ret) ==
    [op |-> op, pkg |-> pkg, shelled |-> FALSE, cmd |-> <<>>, code |-> 0,
     exc |-> NoExc, ret |-> ret]

\* AptTool.update / YumTool.update / BrewTool.update: the command string.
ToolUpdateCmd(t, sudo_str) ==
    IF t = "AptTool" THEN sudo_str \o <<"apt-get", "update">>
    ELSE IF t = "YumTool" THEN sudo_str \o <<"yum", "check-update">>
    ELSE <<"brew", "update">>

\* AptTool.install / YumTool.install / BrewTool.install: the command string.
ToolInstallCmd(t, sudo_str, pkg) ==
    IF t = "AptTool" THEN sudo_str \o <<"apt-get", "install", "-y", pkg>>
    ELSE IF t = "YumTool" THEN sudo_str \o <<"yum", "install", "-y", pkg>>
    ELSE <<"brew", "install", pkg>>

\* AptTool.installed / YumTool.installed / BrewTool.installed: the command string.
ToolInstalledCmd(t, pkg) ==
    IF t = "AptTool" THEN <<"dpkg", "-s", pkg>>
    ELSE IF t = "YumTool" THEN <<"rpm", "-q", pkg>>
    ELSE <<"test", "-n", "$(brew ls --versions", pkg, ")">>

\* self._tool.update()
ToolUpdate(t, sudo_str, code) ==
    IF t = "NullTool" THEN NotShelled("update", NoneVal, FALSE)
    ELSE LET command == ToolUpdateCmd(t, sudo_str)
         IN  Shelled("update", NoneVal, command, code, _run(command, code), FALSE)

\* self._tool.install(package_name)
ToolInstall(t, sudo_str, pkg, code) ==
    IF t = "NullTool" THEN NotShelled("install", pkg, FALSE)
    ELSE LET command == ToolInstallCmd(t, sudo_str, pkg)
         IN  Shelled("install", pkg, command, code, _run(command, code), FALSE)

\* self._tool.installed(package_name): exit status 0 means installed; no raise.
ToolInstalled(t, pkg, code) ==
    IF t = "NullTool" THEN NotShelled("installed", pkg, FALSE)
    ELSE Shelled("installed", pkg, ToolInstalledCmd(t, pkg), code, NoExc, code = 0)

\* ------------------------------------------------------- SystemPackageTool
\* What the runner delegate answers during one install call: the exit status
\* of the i-th installed check, of the update and of the i-th install command.
Runs(n) ==
    [installed : [1..n -> ExitCodes], update : ExitCodes, install : [1..n -> ExitCodes]]

\* The result of a method: the adapter calls it made, in order, the exception
\* it left with (NoExc on a normal return), its return value, and the value of
\* self._is_up_to_date when it left.
Result(trace, exc, ret, up_to_date) ==
    [trace |-> trace, exc |-> exc, ret |-> ret, is_up_to_date |-> up_to_date]

RECURSIVE _installed_from(_, _, _, _)
\* SystemPackageTool._installed: the loop from the i-th package on.
_installed_from(t, packages, codes, i) ==
    IF i > Len(packages) THEN [trace |-> <<>>, ret |-> FALSE]
    ELSE LET ev == ToolInstalled(t, packages[i], codes[i])
         IN  IF ev.ret THEN [trace |-> <<ev>>, ret |-> TRUE]
             ELSE LET rest == _installed_from(t, packages, codes, i + 1)
                  IN  [trace |-> <<ev>> \o rest.trace, ret |-> rest.ret]

\* Mutant of _installed: only the first candidate is checked.
_installed_first_only(t, packages, codes) ==
    IF Len(packages) = 0 THEN [trace |-> <<>>, ret |-> FALSE]
    ELSE LET ev == ToolInstalled(t, packages[1], codes[1])
         IN  [trace |-> <<ev>>, ret |-> ev.ret]

\* SystemPackageTool._installed
_installed(t, packages, codes) == _installed_from(t, packages, codes, 1)

RECURSIVE _install_loop(_, _, _, _, _)
\* SystemPackageTool._install_any: the for loop from the i-th package on.
_install_loop(t, sudo_str, packages, codes, i) ==
    IF i > Len(packages)
    THEN [trace |-> <<>>, exc |-> NoPackageAvailable(packages)]
    ELSE LET ev == ToolInstall(t, sudo_str, packages[i], codes[i])
         IN  IF ev.exc = NoExc THEN [trace |-> <<ev>>, exc |-> NoExc]
             ELSE LET rest == _install_loop(t, sudo_str, packages, codes, i + 1)
                  IN  [trace |-> <<ev>> \o rest.trace, exc |-> rest.exc]

\* Mutant of _install_any: no fallback, the first failure leaves the loop.
_install_any_no_fallback(t, sudo_str, packages, codes) ==
    IF Len(packages) = 0
    THEN [trace |-> <<>>, exc |-> NoPackageAvailable(packages)]
    ELSE LET ev == ToolInstall(t, sudo_str, packages[1], codes[1])
         IN  [trace |-> <<ev>>, exc |-> ev.exc]

\* Mutant of _install_any: the single-candidate case goes through the loop too.
_install_any_always_loop(t, sudo_str, packages, codes) ==
    _install_loop(t, sudo_str, packages, codes, 1)

\* SystemPackageTool._install_any
_install_any(t, sudo_str, packages, codes) ==
    IF Len(packages) = 1
    THEN LET ev == ToolInstall(t, sudo_str, packages[1], codes[1])
         IN  [trace |-> <<ev>>, exc |-> ev.exc]
    ELSE _install_loop(t, sudo_str, packages, codes, 1)

\* Mutant of update: the flag is set after the adapter call, so a failing
\* update leaves it unset.
update_flag_after(t, sudo_str, code) ==
    LET ev == ToolUpdate(t, sudo_str, code)
    IN  Result(<<ev>>, ev.exc, FALSE, ev.exc = NoExc)

\* SystemPackageTool.update: the flag is set before the adapter is called.
update(t, sudo_str, code) ==
    LET ev == ToolUpdate(t, sudo_str, code)
    IN  Result(<<ev>>, ev.exc, FALSE, TRUE)

\* SystemPackageTool.install, after packages was made a list.
install(t, sudo_str, up_to_date, packages, upd, force, run) ==
    LET chk == IF force THEN [trace |-> <<>>, ret |-> FALSE]
               ELSE _installed(t, packages, run.installed)
    IN  IF (~force) /\ chk.ret
        THEN Result(chk.trace, NoExc, FALSE, up_to_date)
        ELSE LET u == IF upd /\ ~up_to_date
                      THEN update(t, sudo_str, run.update)
                      ELSE Result(<<>>, NoExc, FALSE, up_to_date)
             IN  IF u.exc # NoExc
                 THEN Result(chk.trace \o u.trace, u.exc, FALSE, u.is_up_to_date)
                 ELSE LET a == _install_any(t, sudo_str, packages, run.install)
                      IN  Result(chk.trace \o u.trace \o a.trace, a.exc, FALSE,
                                 u.is_up_to_date)

\* ------------------------------------------------------- unzip and get
\* Most entries of a zip archive.
MaxEntries == 2

\* len(file_.filename) + len(full_path) >= 260: the Windows path limit.
WinPathLimit == 260

\* Lengths of the absolute destination path (full_path) and of entry names.
DestLens == {199, 200}

NameLens == {1, 59, 60}

\* file_.file_size of an entry.
FileSizes == {0, 5}

\* The entries of a zip archive, as z.infolist() lists them.
ZipEntries == [name_len : NameLens, file_size : FileSizes]

\* What happens to one entry once it is handed to z.extract, and to os.chmod
\* after it.
EntryFates == {"ok", "extract_fails", "chmod_fails"}

\* No exception, and the exceptions that leave unzip and get.
NoError == "none"

\* len(os.path.join(full_path, file_.filename)) for a destination that does
\* not end with a separator: the separator counts.
JoinedLen(full_len, name_len) == full_len + 1 + name_len

RECURSIVE SumSizes(_, _)
\* sum((file_.file_size for file_ in z.infolist())), from the i-th entry on.
SumSizes(entries, i) ==
    IF i > Len(entries) THEN 0 ELSE entries[i].file_size + SumSizes(entries, i + 1)

\* print_progress raises when the output is a terminal and the archive's
\* total uncompressed size is 0: extracted_size * 100.0 / uncompress_size.
PrintProgressRaises(isatty, uncompress_size) == isatty /\ uncompress_size = 0

\* The result of a zip loop: the entries extracted, the entries an error was
\* printed for, both by position, and the exception that left the loop.
ZipResult(extracted, logged, exc) ==
    [extracted |-> extracted, logged |-> logged, exc |-> exc]

\* unzip, Windows loop: the test that raises ValueError("Filename too long").
TooLong(full_len, name_len) == name_len + full_len >= WinPathLimit

RECURSIVE WindowsLoop(_, _, _, _, _, _)
\* unzip: the loop over z.infolist() when platform.system() == "Windows".
WindowsLoop(entries, fates, full_len, isatty, uncompress_size, i) ==
    IF i > Len(entries) THEN ZipResult({}, {}, NoError)
    ELSE IF PrintProgressRaises(isatty, uncompress_size)
    THEN ZipResult({}, {}, "ZeroDivisionError")
    ELSE LET rest == WindowsLoop(entries, fates, full_len, isatty, uncompress_size, i + 1)
         IN  IF TooLong(full_len, entries[i].name_len) \/ fates[i] = "extract_fails"
             THEN ZipResult(rest.extracted, rest.logged \cup {i}, rest.exc)
             ELSE ZipResult(rest.extracted \cup {i}, rest.logged, rest.exc)

RECURSIVE PosixLoop(_, _, _, _, _, _)
\* unzip: the loop over z.infolist() on every other platform.
PosixLoop(entries, fates, keep_permissions, isatty, uncompress_size, i) ==
    IF i > Len(entries) THEN ZipResult({}, {}, NoError)
    ELSE IF PrintProgressRaises(isatty, uncompress_size)
    THEN ZipResult({}, {}, "ZeroDivisionError")
    ELSE LET rest == PosixLoop(entries, fates, keep_permissions, isatty,
                               uncompress_size, i + 1)
         IN  IF fates[i] = "extract_fails"
             THEN ZipResult(rest.extracted, rest.logged \cup {i}, rest.exc)
             ELSE IF keep_permissions /\ fates[i] = "chmod_fails"
             THEN ZipResult(rest.extracted \cup {i}, rest.logged \cup {i}, rest.exc)
             ELSE ZipResult(rest.extracted \cup {i}, rest.logged, rest.exc)

\* An archive file: its kind by file name suffix, whether the archive library
\* can open and (for tar) extract it, its zip entries and their fates.
Archives(n) ==
    [kind : {"zip"}, readable : BOOLEAN, entries : [1..n -> ZipEntries],
     fates : [1..n -> EntryFates]]
        \cup [kind : {"tar"}, readable : BOOLEAN, entries : {<<>>}, fates : {<<>>}]

\* untargz: tarfile's open and extractall raise on an archive they cannot read.
untargz(arch) ==
    IF arch.readable THEN ZipResult({}, {}, NoError) ELSE ZipResult({}, {}, "TarError")

\* unzip(filename, destination, keep_permissions)
unzip(system, arch, full_len, keep_permissions, isatty) ==
    IF arch.kind = "tar" THEN untargz(arch)
    ELSE IF ~arch.readable THEN ZipResult({}, {}, "BadZipfile")
    ELSE LET uncompress_size == SumSizes(arch.entries, 1)
         IN  IF system = "Windows"
             THEN WindowsLoop(arch.entries, arch.fates, full_len, isatty,
                              uncompress_size, 1)
             ELSE PosixLoop(arch.entries, arch.fates, keep_permissions, isatty,
                            uncompress_size, 1)

\* One step of get: its name and whether it returned normally.
Step(name, ok) == [step |-> name, ok |-> ok]

\* The result of get: the steps it started, in order, the exception it left
\* with, whether the local archive is on disk afterwards, and what unzip did.
GetResult(steps, exc, disk, z) ==
    [steps |-> steps, exc |-> exc, on_disk |-> disk, zip |-> z]

\* Mutant of get: the delete is wrapped in a try that swallows its error.
get_best_effort_delete(system, arch, full_len, isatty, download_ok, unlink_ok, disk) ==
    IF ~download_ok
    THEN GetResult(<<Step("download", FALSE)>>, "ConanException", disk,
                   ZipResult({}, {}, NoError))
    ELSE LET z == unzip(system, arch, full_len, FALSE, isatty)
         IN  IF z.exc # NoError
             THEN GetResult(<<Step("download", TRUE), Step("unzip", FALSE)>>,
                            z.exc, TRUE, z)
             ELSE GetResult(<<Step("download", TRUE), Step("unzip", TRUE),
                              Step("unlink", unlink_ok)>>, NoError, ~unlink_ok, z)

\* get(url): download(url, filename); unzip(filename); os.unlink(filename).
get(system, arch, full_len, isatty, download_ok, unlink_ok, disk) ==
    IF ~download_ok
    THEN GetResult(<<Step("download", FALSE)>>, "ConanException", disk,
                   ZipResult({}, {}, NoError))
    ELSE LET z == unzip(system, arch, full_len, FALSE, isatty)
         IN  IF z.exc # NoError
             THEN GetResult(<<Step("download", TRUE), Step("unzip", FALSE)>>,
                            z.exc, TRUE, z)
             ELSE IF unlink_ok
             THEN GetResult(<<Step("download", TRUE), Step("unzip", TRUE),
                              Step("unlink", TRUE)>>, NoError, FALSE, z)
             ELSE GetResult(<<Step("download", TRUE), Step("unzip", TRUE),
                              Step("unlink", FALSE)>>, "OSError", TRUE, z)

\* No get or unzip call has left yet.
NoFileCall ==
    [op |-> "none", arch |-> [kind |-> "none", readable |-> FALSE, entries |-> <<>>,
                              fates |-> <<>>],
     full_len |-> 0, keep_permissions |-> FALSE, isatty |-> FALSE, steps |-> <<>>,
     extracted |-> {}, logged |-> {}, exc |-> NoError]

\* ------------------------------------------------------- checksums
\* Length of a hex digest, in characters.
DigestLen == 2

\* The algorithms of check_sha1, check_md5 and check_sha256.
Algorithms == {"sha1", "md5", "sha256"}

\* A string is the sequence of its characters. The characters of a lower-case
\* hex digest, and the characters an expected signature may be written with.
LowerHexChars == {"0", "a", "f"}

HexChars == {"0", "a", "f", "A", "F"}

\* The digests _generic_algorithm_sum returns: hashlib's hexdigest, lower case.
RealSignatures == [1..DigestLen -> LowerHexChars]

\* The expected signatures a recipe passes.
Signatures == [1..DigestLen -> HexChars]

\* File paths, as the sequence of their components.
FilePaths == {<<"a.zip">>, <<"tmp", "b.tgz">>}

\* os.path.basename(file_path)
basename(file_path) == file_path[Len(file_path)]

\* No error, and ConanException("%s signature failed for '%s' file. Computed
\* signature: %s" % (algorithm_name, os.path.basename(file_path), real_signature)).
NoSumError == [type |-> "none", algorithm |-> NoneVal, file |-> NoneVal, computed |-> <<>>]

SignatureFailed(algorithm_name, file, real_signature) ==
    [type |-> "ConanException", algorithm |-> algorithm_name, file |-> file,
     computed |-> real_signature]

\* check_with_algorithm_sum(algorithm_name, file_path, signature), with
\* real_signature the digest _generic_algorithm_sum computed for the file.
check_with_algorithm_sum(algorithm_name, file_path, signature, real_signature) ==
    IF real_signature # signature
    THEN SignatureFailed(algorithm_name, basename(file_path), real_signature)
    ELSE NoSumError

\* check_sha1(file_path, signature)
check_sha1(file_path, signature, real_signature) ==
    check_with_algorithm_sum("sha1", file_path, signature, real_signature)

\* check_md5(file_path, signature)
check_md5(file_path, signature, real_signature) ==
    check_with_algorithm_sum("md5", file_path, signature, real_signature)

\* check_sha256(file_path, signature)
check_sha256(file_path, signature, real_signature) ==
    check_with_algorithm_sum("sha256", file_path, signature, real_signature)

\* No checksum call has left yet.
NoSumCall ==
    [op |-> "none", algorithm |-> NoneVal, file_path |-> <<>>, signature |-> <<>>,
     real_signature |-> <<>>, exc |-> NoSumError]

\* ------------------------------------------------------- state
VARIABLES
    host,           \* what platform.system() and distro.id() report
    os_info,        \* the OSInfo the tools are built from
    env_sudo,       \* os.environ.get("CONAN_SYSREQUIRES_SUDO", None)
    tool,           \* tool[i]: the class of instance i's self._tool
    sudo_str,       \* sudo_str[i]: instance i's self._tool._sudo_str
    is_up_to_date,  \* is_up_to_date[i]: instance i's self._is_up_to_date
    hist,           \* hist[i]: the updates instance i ran so far, by caller
    pc,             \* "idle", or "returned" when a call has just left
    last,           \* the SystemPackageTool call that has just left
    on_disk,        \* whether the archive downloaded by get is on disk
    flast,          \* the get or unzip call that has just left
    clast           \* the checksum call that has just left

vars == <<host, os_info, env_sudo, tool, sudo_str, is_up_to_date, hist, pc, last,
          on_disk, flast, clast>>

\* No call has left yet.
NoCall ==
    [op |-> "none", inst |-> NoneVal, packages |-> <<>>, update |-> FALSE,
     force |-> FALSE, was_up_to_date |-> FALSE,
     run |-> [installed |-> <<>>, update |-> 0, install |-> <<>>],
     trace |-> <<>>, exc |-> NoExc]

\* One host per adapter class.
HostSamples ==
    {[system |-> "Linux", distro |-> "ubuntu"], [system |-> "Linux", distro |-> "fedora"],
     [system |-> "Darwin", distro |-> NoneVal], [system |-> "Windows", distro |-> NoneVal]}

\* The state after every instance was constructed on host h with the
\* environment value e: SystemPackageTool.__init__ with the default arguments.
Constructed(h, e) ==
    /\ host = h
    /\ os_info = OSInfo(h)
    /\ env_sudo = e
    /\ tool = [i \in Inst |-> _create_tool(OSInfo(h))]
    /\ sudo_str = [i \in Inst |-> SudoStr(e)]
    /\ is_up_to_date = [i \in Inst |-> FALSE]
    /\ hist = [i \in Inst |-> [by_install |-> 0, direct |-> FALSE]]
    /\ pc = "idle"
    /\ last = NoCall
    /\ on_disk = FALSE
    /\ flast = NoFileCall
    /\ clast = NoSumCall

Init == \E h \in HostSamples, e \in EnvValues : Constructed(h, e)

InitHosts == \E h \in Hosts, e \in EnvValues : Constructed(h, e)

\* The number of update events in a trace.
UpdatesIn(trace) == Cardinality({k \in 1..Len(trace) : trace[k].op = "update"})

\* A call of install on instance i has run to its end with result r.
InstallLeaves(i, packages, upd, force, run, r) ==
    /\ pc' = "returned"
    /\ last' = [op |-> "install", inst |-> i, packages |-> packages, update |-> upd,
                force |-> force, was_up_to_date |-> is_up_to_date[i],
                run |-> run, trace |-> r.trace, exc |-> r.exc]
    /\ is_up_to_date' = [is_up_to_date EXCEPT ![i] = r.is_up_to_date]
    /\ hist' = [hist EXCEPT ![i].by_install =
                    IF @ + UpdatesIn(r.trace) > 2 THEN 2 ELSE @ + UpdatesIn(r.trace)]
    /\ UNCHANGED <<host, os_info, env_sudo, tool, sudo_str, on_disk, flast, clast>>

\* install(packages, update, force) with a list of candidates.
Install(i) ==
    /\ pc = "idle"
    /\ \E n \in 0..MaxPkgs :
         \E packages \in [1..n -> Names], upd \in BOOLEAN, force \in BOOLEAN,
            run \in Runs(n) :
              InstallLeaves(i, packages, upd, force, run,
                            install(tool[i], sudo_str[i], is_up_to_date[i],
                                    packages, upd, force, run))

\* install(packages, update, force) with one name given as a string:
\* packages = [packages] if isinstance(packages, str).
InstallStr(i) ==
    /\ pc = "idle"
    /\ \E name \in Names, upd \in BOOLEAN, force \in BOOLEAN, run \in Runs(1) :
         InstallLeaves(i, <<name>>, upd, force, run,
                       install(tool[i], sudo_str[i], is_up_to_date[i],
                               <<name>>, upd, force, run))

\* SystemPackageTool.update() called by the recipe itself.
Update(i) ==
    /\ pc = "idle"
    /\ \E code \in ExitCodes :
         LET r == update(tool[i], sudo_str[i], code)
         IN  /\ pc' = "returned"
             /\ last' = [op |-> "update", inst |-> i, packages |-> <<>>,
                         update |-> FALSE, force |-> FALSE,
                         was_up_to_date |-> is_up_to_date[i],
                         run |-> [installed |-> <<>>, update |-> code,
                                  install |-> <<>>],
                         trace |-> r.trace, exc |-> r.exc]
             /\ is_up_to_date' = [is_up_to_date EXCEPT ![i] = r.is_up_to_date]
             /\ hist' = [hist EXCEPT ![i].direct = TRUE]
             /\ UNCHANGED <<host, os_info, env_sudo, tool, sudo_str, on_disk, flast, clast>>

\* The caller has taken the result of the call; the next call can start.
Return ==
    /\ pc = "returned"
    /\ pc' = "idle"
    /\ last' = NoCall
    /\ flast' = NoFileCall
    /\ clast' = NoSumCall
    /\ UNCHANGED <<host, os_info, env_sudo, tool, sudo_str, is_up_to_date, hist, on_disk>>

Next ==
    \/ \E i \in Inst : Install(i)
    \/ \E i \in Inst : InstallStr(i)
    \/ \E i \in Inst : Update(i)
    \/ Return

Spec == Init /\ [][Next]_vars

NextHosts ==
    \/ \E i \in Inst : InstallStr(i)
    \/ \E i \in Inst : Update(i)
    \/ Return

SpecHosts == InitHosts /\ [][NextHosts]_vars

\* The hosts the file helpers are run on: every host sample, with the
\* environment override absent.
InitFiles == \E h \in HostSamples : Constructed(h, NoneVal)

\* unzip(filename, destination, keep_permissions) called by the recipe.
Unzip ==
    /\ pc = "idle"
    /\ \E n \in 0..MaxEntries :
         \E arch \in Archives(n), full_len \in DestLens, keep \in BOOLEAN,
            isatty \in BOOLEAN :
              LET z == unzip(host.system, arch, full_len, keep, isatty)
              IN  /\ pc' = "returned"
                  /\ flast' = [op |-> "unzip", arch |-> arch, full_len |-> full_len,
                               keep_permissions |-> keep, isatty |-> isatty,
                               steps |-> <<>>, extracted |-> z.extracted,
                               logged |-> z.logged, exc |-> z.exc]
                  /\ UNCHANGED <<host, os_info, env_sudo, tool, sudo_str,
                                 is_up_to_date, hist, last, on_disk, clast>>

\* get(url) called by the recipe; the current directory is the destination.
Get ==
    /\ pc = "idle"
    /\ \E n \in 0..MaxEntries :
         \E arch \in Archives(n), full_len \in DestLens, isatty \in BOOLEAN,
            download_ok \in BOOLEAN, unlink_ok \in BOOLEAN :
              LET g == get(host.system, arch, full_len, isatty, download_ok,
                           unlink_ok, on_disk)
              IN  /\ pc' = "returned"
                  /\ flast' = [op |-> "get", arch |-> arch, full_len |-> full_len,
                               keep_permissions |-> FALSE, isatty |-> isatty,
                               steps |-> g.steps, extracted |-> g.zip.extracted,
                               logged |-> g.zip.logged, exc |-> g.exc]
                  /\ on_disk' = g.on_disk
                  /\ UNCHANGED <<host, os_info, env_sudo, tool, sudo_str,
                                 is_up_to_date, hist, last, clast>>

NextFiles == Unzip \/ Get \/ Return

SpecFiles == InitFiles /\ [][NextFiles]_vars

\* The hosts the checksum helpers are run on.
InitSums == \E h \in HostSamples : Constructed(h, NoneVal)

\* A checksum call on file_path has run to its end with exception exc.
SumLeaves(op, algorithm_name, file_path, signature, real_signature, exc) ==
    /\ pc' = "returned"
    /\ clast' = [op |-> op, algorithm |-> algorithm_name, file_path |-> file_path,
                 signature |-> signature, real_signature |-> real_signature,
                 exc |-> exc]
    /\ UNCHANGED <<host, os_info, env_sudo, tool, sudo_str, is_up_to_date, hist,
                   last, on_disk, flast>>

\* check_with_algorithm_sum called by the recipe.
CheckWithAlgorithmSum ==
    /\ pc = "idle"
    /\ \E alg \in Algorithms, f \in FilePaths, sig \in Signatures,
          real \in RealSignatures :
            SumLeaves("check_with_algorithm_sum", alg, f, sig, real,
                      check_with_algorithm_sum(alg, f, sig, real))

\* check_sha1 called by the recipe.
CheckSha1 ==
    /\ pc = "idle"
    /\ \E f \in FilePaths, sig \in Signatures, real \in RealSignatures :
            SumLeaves("check_sha1", "sha1", f, sig, real, check_sha1(f, sig, real))

\* check_md5 called by the recipe.
CheckMd5 ==
    /\ pc = "idle"
    /\ \E f \in FilePaths, sig \in Signatures, real \in RealSignatures :
            SumLeaves("check_md5", "md5", f, sig, real, check_md5(f, sig, real))

\* check_sha256 called by the recipe.
CheckSha256 ==
    /\ pc = "idle"
    /\ \E f \in FilePaths, sig \in Signatures, real \in RealSignatures :
            SumLeaves("check_sha256", "sha256", f, sig, real,
                      check_sha256(f, sig, real))

NextSums == CheckWithAlgorithmSum \/ CheckSha1 \/ CheckMd5 \/ CheckSha256 \/ Return

SpecSums == InitSums /\ [][NextSums]_vars

\* ------------------------------------------------------- reading a call
\* The adapter calls of one kind in the call that has just left, in order.
IsInstall(ev) == ev.op = "install"

IsUpdate(ev) == ev.op = "update"

Attempts == SelectSeq(last.trace, IsInstall)

UpdateRuns == SelectSeq(last.trace, IsUpdate)

\* A call of install has just left.
InstallReturned == pc = "returned" /\ last.op = "install"

\* The adapter answers "installed" for the k-th candidate of the call: the
\* null adapter never does, the others do when their check exits with 0.
ReportsInstalled(k) ==
    tool[last.inst] # "NullTool" /\ last.run.installed[k] = 0

AnyReportedInstalled == \E k \in 1..Len(last.packages) : ReportsInstalled(k)

\* The call went past the installed check: to the update and install step.
ReachesInstallStep == last.force \/ ~AnyReportedInstalled

\* The update command of the call fails: it is run and exits with non-zero.
UpdateFails ==
    /\ ReachesInstallStep
    /\ last.update /\ ~last.was_up_to_date
    /\ tool[last.inst] # "NullTool" /\ last.run.update # 0

\* ------------------------------------------------------- C1
\* C1: an install call with force = false for which the adapter reports some
\* candidate as installed returns without error and makes no adapter install
\* call and no adapter update call, whatever update and the up-to-date flag are.
C1_InstalledMeansNoInstallNoUpdate ==
    (InstallReturned /\ ~last.force /\ AnyReportedInstalled)
        => /\ last.exc = NoExc
           /\ Attempts = <<>>
           /\ UpdateRuns = <<>>
           /\ is_up_to_date[last.inst] = last.was_up_to_date

\* C1 witness: the second of two candidates is reported installed, with
\* update = true on an instance that has not run an update.
C1_Witness ==
    /\ InstallReturned /\ ~last.force /\ last.update /\ ~last.was_up_to_date
    /\ last.packages = <<"a", "b">>
    /\ ~ReportsInstalled(1) /\ ReportsInstalled(2)
    /\ last.exc = NoExc /\ Len(last.trace) = 2

\* ------------------------------------------------------- C2
\* C2: with two or more candidates and the installed check passed (or forced),
\* install is attempted on the candidates in list order, each position at most
\* once, going on only after a failure and stopping at the first success, which
\* ends the call without error; unless the update command failed first, the
\* attempts run until a success or the end of the list; and NoPackageAvailable,
\* naming the whole list, is raised exactly when every candidate was attempted
\* and failed.
C2_FallbackInOrder ==
    (InstallReturned /\ Len(last.packages) >= 2 /\ ReachesInstallStep)
        => LET att == Attempts
               n == Len(last.packages)
               AllFailed == \A k \in 1..Len(att) : att[k].exc # NoExc
           IN  /\ Len(att) <= n
               /\ \A k \in 1..Len(att) : att[k].pkg = last.packages[k]
               /\ \A k \in 1..Len(att) :
                     IF att[k].exc = NoExc
                     THEN k = Len(att) /\ last.exc = NoExc
                     ELSE k < Len(att) \/ k = n
               /\ UpdateFails <=> att = <<>>
               /\ UpdateFails => last.exc.type = "CommandFailed"
               /\ (last.exc.type = "NoPackageAvailable") <=> (Len(att) = n /\ AllFailed)
               /\ last.exc.type = "NoPackageAvailable" => last.exc.pkgs = last.packages

\* C2 witness: install fails for "a" and succeeds for "b"; one attempt each,
\* in that order, and no error.
C2_Witness ==
    /\ InstallReturned /\ last.packages = <<"a", "b">> /\ ~last.force
    /\ Len(Attempts) = 2
    /\ Attempts[1].pkg = "a" /\ Attempts[1].exc # NoExc
    /\ Attempts[2].pkg = "b" /\ Attempts[2].exc = NoExc
    /\ last.exc = NoExc

\* ------------------------------------------------------- C3
\* C3: with exactly one candidate, not reported installed, whose install
\* command is run and fails, the call leaves with the CommandFailed of that
\* command (never NoPackageAvailable) after exactly one install attempt.
C3_SingleCandidateFailurePropagates ==
    (/\ InstallReturned /\ Len(last.packages) = 1
     /\ ~AnyReportedInstalled /\ ~UpdateFails
     /\ tool[last.inst] # "NullTool" /\ last.run.install[1] # 0)
        => /\ Len(Attempts) = 1
           /\ Attempts[1].pkg = last.packages[1]
           /\ last.exc.type = "CommandFailed"
           /\ last.exc.cmd = Attempts[1].cmd
           /\ last.exc.cmd[Len(last.exc.cmd)] = last.packages[1]
           /\ "install" \in {last.exc.cmd[k] : k \in 1..Len(last.exc.cmd)}

\* C3 witness: install(["a"]) on the apt adapter, "a" not installed, the
\* install command exits with 1.
C3_Witness ==
    /\ InstallReturned /\ last.packages = <<"a">> /\ ~last.force
    /\ tool[last.inst] = "AptTool" /\ ~ReportsInstalled(1)
    /\ Len(Attempts) = 1 /\ Attempts[1].code = 1
    /\ last.exc.type = "CommandFailed"

\* ------------------------------------------------------- C4
\* C4: on every instance install runs the adapter update at most once in the
\* instance's lifetime. An install call runs it exactly when update = true, the
\* call reaches the install step and the instance's flag is unset, and then
\* before every install attempt of the call; the flag of an instance starts
\* unset and is set exactly when an update ran on that same instance, whether
\* the update succeeded or not.
C4_UpdateOncePerInstance ==
    /\ \A i \in Inst :
          /\ hist[i].by_install <= 1
          /\ is_up_to_date[i] <=> (hist[i].by_install > 0 \/ hist[i].direct)
    /\ InstallReturned =>
          /\ Len(UpdateRuns) =
                IF last.update /\ ReachesInstallStep /\ ~last.was_up_to_date
                THEN 1 ELSE 0
          /\ last.was_up_to_date <=>
                (hist[last.inst].by_install > Len(UpdateRuns) \/ hist[last.inst].direct)
          /\ \A j, k \in 1..Len(last.trace) :
                (last.trace[j].op = "update" /\ last.trace[k].op = "install") => j < k

\* C4 witness: a later install call with update = true on an instance whose
\* earlier install call ran the update: it reaches the install step and
\* attempts an install without running the update again.
C4_Witness ==
    /\ InstallReturned /\ last.update /\ last.was_up_to_date
    /\ hist[last.inst].by_install = 1 /\ ~hist[last.inst].direct
    /\ UpdateRuns = <<>> /\ Len(Attempts) >= 1
    /\ \E j \in Inst : j # last.inst /\ ~is_up_to_date[j]

\* ------------------------------------------------------- C5
\* The update and install commands shelled in the call that has just left.
UpdateAndInstallCmds ==
    {last.trace[k].cmd : k \in {j \in 1..Len(last.trace) :
        last.trace[j].shelled /\ last.trace[j].op \in {"update", "install"}}}

HasSudoPrefix(command) == Len(command) > 0 /\ command[1] = "sudo"

\* The environment override disables the prefix.
OverrideDisables == env_sudo \in {"False", "0"}

\* C5 as stated: on the apt, yum and brew adapters every update and install
\* command begins with "sudo " exactly when CONAN_SYSREQUIRES_SUDO is neither
\* "False" nor "0".
C5_AsStated ==
    (pc = "returned" /\ tool[last.inst] \in {"AptTool", "YumTool", "BrewTool"})
        => \A command \in UpdateAndInstallCmds :
              HasSudoPrefix(command) <=> ~OverrideDisables

\* C5 amended: on the apt and yum adapters every update and install command
\* begins with "sudo " exactly when CONAN_SYSREQUIRES_SUDO is neither "False"
\* nor "0" (absent counts as enabled); the brew adapter's update and install
\* commands never carry the prefix, whatever the override is.
C5_SudoPrefixAptYumOnly ==
    pc = "returned"
        => \A command \in UpdateAndInstallCmds :
              /\ tool[last.inst] \in {"AptTool", "YumTool"}
                    => (HasSudoPrefix(command) <=> ~OverrideDisables)
              /\ tool[last.inst] = "BrewTool" => ~HasSudoPrefix(command)

\* C5 witness: with the override set to "0" the apt adapter has shelled an
\* update and an install command, neither with the prefix.
C5_Witness ==
    /\ InstallReturned /\ tool[last.inst] = "AptTool" /\ env_sudo = "0"
    /\ Len(UpdateRuns) = 1 /\ Len(Attempts) = 1
    /\ UpdateRuns[1].cmd = <<"apt-get", "update">>
    /\ Attempts[1].cmd = <<"apt-get", "install", "-y", "a">>

\* ------------------------------------------------------- C6
\* C6 as stated: every command an adapter shells (update, install or the
\* installed check) that exits with non-zero raises CommandFailed carrying
\* that command.
C6_AsStated ==
    pc = "returned"
        => \A k \in 1..Len(last.trace) :
              (last.trace[k].shelled /\ last.trace[k].code # 0)
                  => last.trace[k].exc = CommandFailed(last.trace[k].cmd)

\* C6 amended: every update or install command an adapter shells that exits
\* with non-zero raises CommandFailed carrying that command, and one that exits
\* with 0 raises nothing; the installed check never raises: a non-zero exit of
\* its command is the answer "not installed".
C6_CommandFailedForUpdateAndInstall ==
    pc = "returned"
        => \A k \in 1..Len(last.trace) :
              LET ev == last.trace[k]
              IN  ev.shelled =>
                    IF ev.op = "installed"
                    THEN ev.exc = NoExc /\ (ev.ret <=> ev.code = 0)
                    ELSE /\ ev.code # 0 =>
                               /\ ev.exc.type = "CommandFailed"
                               /\ ev.exc.cmd = ev.cmd
                               /\ ev.cmd = IF ev.op = "update"
                                           THEN ToolUpdateCmd(tool[last.inst],
                                                              sudo_str[last.inst])
                                           ELSE ToolInstallCmd(tool[last.inst],
                                                               sudo_str[last.inst], ev.pkg)
                         /\ ev.code = 0 => ev.exc = NoExc

\* C6 witness: the yum installed check exited with 1 without an error, and the
\* update command that followed exited with 1 and left the call with
\* CommandFailed carrying "sudo yum check-update".
C6_Witness ==
    /\ InstallReturned /\ tool[last.inst] = "YumTool" /\ env_sudo = NoneVal
    /\ Len(last.trace) = 2
    /\ last.trace[1].op = "installed" /\ last.trace[1].code = 1
    /\ last.trace[2].op = "update" /\ last.trace[2].code = 1
    /\ last.exc = CommandFailed(<<"sudo", "yum", "check-update">>)

\* ------------------------------------------------------- C7
\* C7: every instance's adapter is the one the priority picks from the
\* fingerprint: apt if with_apt, else yum if with_yum, else brew on macOS, else
\* null; with_apt and with_yum hold only on Linux with the distribution id in
\* their lists, which are disjoint; and the adapter stays the same in every
\* state after construction.
C7_AdapterSelection ==
    /\ with_apt(os_info) <=>
            (host.system = "Linux"
             /\ host.distro \in {"debian", "ubuntu", "knoppix", "linuxmint", "raspbian"})
    /\ with_yum(os_info) <=>
            (host.system = "Linux"
             /\ host.distro \in {"centos", "redhat", "fedora", "pidora", "scientific",
                                  "xenserver", "amazon", "oracle"})
    /\ ~(with_apt(os_info) /\ with_yum(os_info))
    /\ \A i \in Inst :
          tool[i] = IF with_apt(os_info) THEN "AptTool"
                    ELSE IF with_yum(os_info) THEN "YumTool"
                    ELSE IF host.system = "Darwin" THEN "BrewTool"
                    ELSE "NullTool"

\* C7 witness: on macOS the brew adapter was selected and is still the adapter
\* after an install call has run on it.
C7_Witness ==
    /\ InstallReturned /\ host.system = "Darwin"
    /\ tool[last.inst] = "BrewTool"
    /\ Len(Attempts) = 1 /\ Attempts[1].cmd = <<"brew", "install", "a">>

\* ------------------------------------------------------- C10
\* The family flags of an OSInfo that are true.
FamilyFlags(info) ==
    {f \in {"is_linux", "is_windows", "is_macos", "is_freebsd", "is_solaris"} : info[f]}

\* C10 as stated: for every host system name exactly one family flag is true.
C10_AsStated == Cardinality(FamilyFlags(os_info)) = 1

\* C10 amended: at most one family flag is true; exactly one is true when the
\* host system name is one of Linux, Windows, Darwin, FreeBSD, SunOS, and it is
\* the flag of that family; for every other system name no flag is true.
C10_AtMostOneFamilyFlag ==
    /\ Cardinality(FamilyFlags(os_info)) <= 1
    /\ FamilyFlags(os_info) =
          IF host.system = "Linux" THEN {"is_linux"}
          ELSE IF host.system = "Windows" THEN {"is_windows"}
          ELSE IF host.system = "Darwin" THEN {"is_macos"}
          ELSE IF host.system = "FreeBSD" THEN {"is_freebsd"}
          ELSE IF host.system = "SunOS" THEN {"is_solaris"}
          ELSE {}

\* C10 witness: detection on a host reporting "AIX" has set no family flag,
\* and the tool built from it runs on the null adapter.
C10_Witness ==
    /\ host.system = "AIX" /\ FamilyFlags(os_info) = {}
    /\ InstallReturned /\ tool[last.inst] = "NullTool"

\* ------------------------------------------------------- C8
\* A call of get has just left.
GetReturned == pc = "returned" /\ flast.op = "get"

\* get ran download, unzip, unlink in that order, each only after the one
\* before it returned normally.
StepsInOrder ==
    /\ Len(flast.steps) \in 1..3
    /\ \A k \in 1..Len(flast.steps) :
          /\ flast.steps[k].step = <<"download", "unzip", "unlink">>[k]
          /\ k < Len(flast.steps) => flast.steps[k].ok

\* Download and extraction succeeded and deleting the archive failed.
DeleteAloneFailed ==
    /\ Len(flast.steps) = 3
    /\ flast.steps[1].ok /\ flast.steps[2].ok /\ ~flast.steps[3].ok

\* C8 as stated: get runs download, extract, delete in order, and when only
\* the delete fails get still completes without an error.
C8_AsStated ==
    GetReturned => (StepsInOrder /\ (DeleteAloneFailed => flast.exc = NoError))

\* C8 amended: get runs download, extract, delete in that order, each only
\* after the one before it returned; the delete is not guarded: when download
\* and extraction succeeded and the delete fails, get leaves with the delete's
\* OSError and the archive stays on disk; get completes without error exactly
\* when all three steps succeeded.
C8_DeleteFailurePropagates ==
    GetReturned =>
        /\ StepsInOrder
        /\ DeleteAloneFailed => (flast.exc = "OSError" /\ on_disk)
        /\ (flast.exc = NoError) <=>
              (Len(flast.steps) = 3 /\ \A k \in 1..3 : flast.steps[k].ok)
        /\ flast.exc = NoError => ~on_disk

\* C8 witness: a zip archive was downloaded and an entry extracted, then the
\* delete failed and get left with OSError.
C8_Witness ==
    /\ GetReturned /\ DeleteAloneFailed
    /\ flast.arch.kind = "zip" /\ flast.extracted # {}
    /\ flast.exc = "OSError"

\* ------------------------------------------------------- C9
\* C9: in zip extraction on Windows, for every archive that opens and whose
\* entries do not fail in z.extract on their own: every entry whose
\* destination path (the destination joined with the entry name) has 260
\* characters or more is not extracted and has an error logged, every entry
\* under the limit is extracted, and unzip raises no error.
C9_AsStated ==
    (/\ pc = "returned" /\ flast.op = "unzip" /\ host.system = "Windows"
     /\ flast.arch.kind = "zip" /\ flast.arch.readable
     /\ \A i \in 1..Len(flast.arch.entries) : flast.arch.fates[i] # "extract_fails")
        => /\ flast.exc = NoError
           /\ \A i \in 1..Len(flast.arch.entries) :
                 IF JoinedLen(flast.full_len, flast.arch.entries[i].name_len)
                        >= WinPathLimit
                 THEN i \notin flast.extracted /\ i \in flast.logged
                 ELSE i \in flast.extracted

\* ------------------------------------------------------- C11
\* The lower-case form of a hex character and of a string.
LowerChar(c) == IF c = "A" THEN "a" ELSE IF c = "F" THEN "f" ELSE c

Lower(str) == [k \in 1..Len(str) |-> LowerChar(str[k])]

\* A checksum call has just left.
SumReturned == pc = "returned" /\ clast.op # "none"

\* C11: for every algorithm, file and expected hex string the check succeeds
\* when the computed digest and the expected value are equal up to letter
\* case, and fails, with an error naming the algorithm, the file's base name
\* and the computed digest, if and only if they differ beyond letter case.
C11_AsStated ==
    SumReturned =>
        IF Lower(clast.real_signature) = Lower(clast.signature)
        THEN clast.exc = NoSumError
        ELSE clast.exc = SignatureFailed(clast.algorithm,
                                         clast.file_path[Len(clast.file_path)],
                                         clast.real_signature)

=============================================================================
